---- MODULE Spec2Model ----
(***************************************************************************)
(* A model of xknx/devices/light.py: the Light device, its six            *)
(* RemoteValue slots, the capability gate of the setters, the action      *)
(* dispatch of do() and the telegram fan-out of process_group_write().    *)
(*                                                                         *)
(* The RemoteValue classes (xknx/remote_value) and the Device base class  *)
(* live in other modules: their behaviour is taken from the collaborator  *)
(* contract of the specification (sections 3, 4.3 and 6).                 *)
(***************************************************************************)
EXTENDS Integers, Sequences, FiniteSets, TLC

\* Python's None and a present value: an optional is a tuple of length 0 or 1.
None == <<>>
Some(x) == <<x>>
Get(o) == o[1]

(***************************************************************************)
(* Bounds of the model.                                                    *)
(***************************************************************************)
\* Scalar values (brightness, tunable white, colour components) are 0..MaxVal.
MaxVal == 1

(***************************************************************************)
(* Program constants.                                                      *)
(***************************************************************************)
DEFAULT_MIN_KELVIN == 2700
DEFAULT_MAX_KELVIN == 6000
\* range_from / range_to handed to the two RemoteValueScaling slots.
range_from == 0
range_to == 255

(***************************************************************************)
(* The six slots.  iter_remote_values is Light._iter_remote_values.        *)
(***************************************************************************)
\* Mutant: the last slot is missing from the iteration.
iter_remote_values_short ==
    <<"switch", "brightness", "color", "rgbw", "tunable_white">>

iter_remote_values ==
    <<"switch", "brightness", "color", "rgbw", "tunable_white", "color_temperature">>

\* The attributes of a Light that hold a RemoteValue, as __init__ assigns them.
SlotOrder ==
    <<"switch", "brightness", "color", "rgbw", "tunable_white", "color_temperature">>

Slots == {SlotOrder[i] : i \in 1..Len(SlotOrder)}

SlotIndex(s) == CHOOSE i \in 1..Len(SlotOrder) : SlotOrder[i] = s

(***************************************************************************)
(* Values and their wire form.  The slot caches the decoded value; a       *)
(* telegram carries the payload as a tuple of bytes.                       *)
(***************************************************************************)
Scalars == 0..MaxVal
RGBs == {<<c, 0, MaxVal - c>> : c \in Scalars}
RGBWs == {rgb \o <<w>> : rgb \in RGBs, w \in Scalars}
Kelvins == {DEFAULT_MIN_KELVIN + k : k \in Scalars}

DomainOf(s) ==
    CASE s = "switch" -> BOOLEAN
      [] s = "brightness" -> Scalars
      [] s = "color" -> RGBs
      [] s = "rgbw" -> RGBWs
      [] s = "tunable_white" -> Scalars
      [] s = "color_temperature" -> Kelvins

\* RemoteValue*.to_knx: the payload a slot of kind s writes for value v.
to_knx(s, v) ==
    CASE s = "switch" -> IF v THEN <<1>> ELSE <<0>>
      [] s \in {"brightness", "tunable_white"} ->
            <<((v - range_from) * 255) \div (range_to - range_from)>>
      [] s = "color" -> v
      [] s = "rgbw" -> v \o <<0, 15>>
      [] s = "color_temperature" -> <<v \div 256, v % 256>>

\* RemoteValue*.from_knx: the value a slot of kind s decodes from payload p.
from_knx(s, p) ==
    CASE s = "switch" -> p[1] = 1
      [] s \in {"brightness", "tunable_white"} ->
            range_from + (p[1] * (range_to - range_from)) \div 255
      [] s = "color" -> SubSeq(p, 1, 3)
      [] s = "rgbw" -> SubSeq(p, 1, 4)
      [] s = "color_temperature" -> p[1] * 256 + p[2]

(***************************************************************************)
(* State.                                                                  *)
(***************************************************************************)
VARIABLES
    remote_values,  \* slot name -> the slot: addresses, initialized, value
    local_echo,     \* whether a slot's set() also records the written value
    running,        \* the process_group_write suspended between two probes
    last,           \* what the operation that completed last did
    min_kelvin,     \* self.min_kelvin
    max_kelvin,     \* self.max_kelvin
    constructed     \* the call that constructed the Light, with its arguments

vars == <<remote_values, local_echo, running, last, min_kelvin, max_kelvin,
          constructed>>

\* RemoteValue.__init__: a slot constructed with the two optional addresses.
RemoteValue(group_address, group_address_state) ==
    [group_address |-> group_address,
     group_address_state |-> group_address_state,
     initialized |-> (group_address # None \/ group_address_state # None),
     value |-> None]

\* RemoteValue.initialized
initialized(slot) == slot.initialized

\* RemoteValue.has_group_address: the telegram's destination is one of the
\* slot's configured addresses.
has_group_address(slot, group_address) ==
    \/ (slot.group_address # None /\ slot.group_address = group_address)
    \/ (slot.group_address_state # None /\ slot.group_address_state = group_address)

\* RemoteValue.process: no-op on a non-match; on a match decode the payload,
\* cache it and call after_update_cb once iff the value differs from the
\* cached one.  The result is the slot and the number of callbacks.
RemoteValue_process(slot, s, telegram) ==
    IF ~has_group_address(slot, telegram.group_address)
    THEN [slot |-> slot, cbs |-> 0]
    ELSE LET v == Some(from_knx(s, telegram.payload))
         IN  IF slot.value # v
             THEN [slot |-> [slot EXCEPT !.value = v], cbs |-> 1]
             ELSE [slot |-> slot, cbs |-> 0]

\* RemoteValue.set (and RemoteValueSwitch.on / off): one bus write of the
\* encoded value to the slot's write address; the slot does not reject the
\* call itself.  Whether an initialized slot also records the written value
\* (calling after_update_cb iff it changed) is left open by the contract:
\* echo selects between the two behaviours.  The value of an uninitialized
\* slot stays absent.
RemoteValue_set(slot, s, v, echo) ==
    LET write == [group_address |-> slot.group_address, payload |-> to_knx(s, v)]
        changed == echo /\ slot.initialized /\ slot.value # Some(v)
    IN  [slot |-> IF changed THEN [slot EXCEPT !.value = Some(v)] ELSE slot,
         cbs |-> IF changed THEN 1 ELSE 0,
         bus |-> <<write>>]

(***************************************************************************)
(* The Light.  self is the function slot name -> slot; an operation yields *)
(* an outcome: the slots afterwards, the number of update callbacks run,   *)
(* the bus writes emitted, the warnings logged, the error raised to the    *)
(* caller (None if it returned normally) and the slot methods called,      *)
(* each with its argument.                                                 *)
(***************************************************************************)
Outcome(self) ==
    [rv |-> self, cbs |-> 0, bus |-> <<>>, warnings |-> <<>>, raised |-> None,
     calls |-> <<>>]

\* logger.warning(...) followed by a return.
Warn(self, message) == [Outcome(self) EXCEPT !.warnings = <<message>>]

\* await self.<s>.<method>(v): the call is handed to the slot as it is.
Forward(self, echo, s, method, v) ==
    LET r == RemoteValue_set(self[s], s, v, echo)
    IN  [rv |-> [self EXCEPT ![s] = r.slot], cbs |-> r.cbs, bus |-> r.bus,
         warnings |-> <<>>, raised |-> None,
         calls |-> <<[slot |-> s, method |-> method, arg |-> v]>>]

supports_brightness(self) == initialized(self["brightness"])
\* Mutant: the flag reads the neighbouring slot.
supports_color_reads_rgbw(self) == initialized(self["rgbw"])

supports_color(self) == initialized(self["color"])
supports_rgbw(self) == initialized(self["rgbw"])
supports_tunable_white(self) == initialized(self["tunable_white"])
supports_color_temperature(self) == initialized(self["color_temperature"])

\* Mutant: a Light dimmed above zero also counts as on.
state_or_dimmed(self) ==
    \/ self["switch"].value = Some(TRUE)
    \/ (self["brightness"].value # None /\ Get(self["brightness"].value) > 0)

\* Light.state
state(self) == self["switch"].value = Some(TRUE)

set_on(self, echo) == Forward(self, echo, "switch", "on", TRUE)

set_off(self, echo) == Forward(self, echo, "switch", "off", FALSE)

\* Mutant: a brightness that was never received reads as zero.
current_brightness_zero(self) ==
    IF self["brightness"].value = None THEN Some(0) ELSE self["brightness"].value

current_brightness(self) == self["brightness"].value

\* Mutant: the capability gate is missing.
set_brightness_ungated(self, echo, brightness) ==
    Forward(self, echo, "brightness", "set", brightness)

set_brightness(self, echo, brightness) ==
    IF ~supports_brightness(self)
    THEN Warn(self, "Dimming not supported")
    ELSE Forward(self, echo, "brightness", "set", brightness)

\* Mutant: the color slot is reported whenever plain colour is supported.
current_color_prefers_color(self) ==
    IF supports_color(self) THEN <<self["color"].value, None>>
    ELSE IF supports_rgbw(self)
    THEN IF self["rgbw"].value = None THEN <<None, None>>
         ELSE <<Some(SubSeq(Get(self["rgbw"].value), 1, 3)),
                Some(Get(self["rgbw"].value)[4])>>
    ELSE <<self["color"].value, None>>

\* Light.current_color: the pair (rgb, white).
current_color(self) ==
    IF supports_rgbw(self)
    THEN IF self["rgbw"].value = None
         THEN <<None, None>>
         ELSE <<Some(SubSeq(Get(self["rgbw"].value), 1, 3)),
                Some(Get(self["rgbw"].value)[4])>>
    ELSE <<self["color"].value, None>>

\* Mutant: a white value on a Light without RGBW falls back to plain colour.
set_color_fallback(self, echo, color, white) ==
    IF white # None /\ supports_rgbw(self)
    THEN Forward(self, echo, "rgbw", "set", color \o <<Get(white)>>)
    ELSE IF supports_color(self)
         THEN Forward(self, echo, "color", "set", color)
         ELSE Warn(self, "Colors not supported")

\* Light.set_color: white is an optional.
set_color(self, echo, color, white) ==
    IF white # None
    THEN IF supports_rgbw(self)
         THEN Forward(self, echo, "rgbw", "set", color \o <<Get(white)>>)
         ELSE Warn(self, "RGBW not supported")
    ELSE IF supports_color(self)
         THEN Forward(self, echo, "color", "set", color)
         ELSE Warn(self, "Colors not supported")

current_tunable_white(self) == self["tunable_white"].value

\* Mutant: the tunable white value is handed to the brightness slot.
set_tunable_white_to_brightness(self, echo, tunable_white) ==
    IF ~supports_tunable_white(self) THEN Warn(self, "Tunable white not supported")
    ELSE Forward(self, echo, "brightness", "set", tunable_white)

\* Mutant: the capability gate is missing.
set_tunable_white_ungated(self, echo, tunable_white) ==
    Forward(self, echo, "tunable_white", "set", tunable_white)

set_tunable_white(self, echo, tunable_white) ==
    IF ~supports_tunable_white(self)
    THEN Warn(self, "Tunable white not supported")
    ELSE Forward(self, echo, "tunable_white", "set", tunable_white)

current_color_temperature(self) == self["color_temperature"].value

set_color_temperature(self, echo, color_temperature) ==
    IF ~supports_color_temperature(self)
    THEN Warn(self, "Absolute Color Temperature not supported")
    ELSE Forward(self, echo, "color_temperature", "set", color_temperature)

(***************************************************************************)
(* Action strings.  A Python str is a tuple of one-character strings.      *)
(***************************************************************************)
Digits == <<"0", "1", "2", "3", "4", "5", "6", "7", "8", "9">>

IsDigit(c) == \E i \in 1..Len(Digits) : Digits[i] = c

DigitValue(c) == (CHOOSE i \in 1..Len(Digits) : Digits[i] = c) - 1

\* str.startswith
startswith(str, prefix) ==
    Len(str) >= Len(prefix) /\ SubSeq(str, 1, Len(prefix)) = prefix

\* str[n:]
SliceFrom(str, n) == SubSeq(str, n + 1, Len(str))

\* str.strip() of blanks, as int() applies it to its argument.
RECURSIVE lstrip(_)
lstrip(str) ==
    IF str # <<>> /\ Head(str) = " " THEN lstrip(Tail(str)) ELSE str

RECURSIVE rstrip(_)
rstrip(str) ==
    IF str # <<>> /\ str[Len(str)] = " "
    THEN rstrip(SubSeq(str, 1, Len(str) - 1))
    ELSE str

\* The digits of a literal: digits, single underscores allowed between them.
WellFormedDigits(str) ==
    /\ str # <<>>
    /\ IsDigit(str[1]) /\ IsDigit(str[Len(str)])
    /\ \A i \in 1..Len(str) : IsDigit(str[i]) \/ str[i] = "_"
    /\ \A i \in 1..(Len(str) - 1) : ~(str[i] = "_" /\ str[i + 1] = "_")

RECURSIVE DigitsValue(_, _)
DigitsValue(str, acc) ==
    IF str = <<>> THEN acc
    ELSE IF Head(str) = "_" THEN DigitsValue(Tail(str), acc)
    ELSE DigitsValue(Tail(str), 10 * acc + DigitValue(Head(str)))

\* int(str): the parsed integer, or ValueError.
int(str) ==
    LET body == rstrip(lstrip(str))
        signed == body # <<>> /\ Head(body) \in {"+", "-"}
        digits == IF signed THEN Tail(body) ELSE body
    IN  IF ~WellFormedDigits(digits)
        THEN [ok |-> FALSE, value |-> 0]
        ELSE [ok |-> TRUE,
              value |-> IF signed /\ Head(body) = "-"
                        THEN 0 - DigitsValue(digits, 0)
                        ELSE DigitsValue(digits, 0)]

\* An exception that leaves the operation: nothing else has happened yet.
Raise(self, exception) == [Outcome(self) EXCEPT !.raised = Some(exception)]

STR_on == <<"o", "n">>
STR_off == <<"o", "f", "f">>
STR_brightness == <<"b", "r", "i", "g", "h", "t", "n", "e", "s", "s", ":">>
STR_tunable_white ==
    <<"t", "u", "n", "a", "b", "l", "e", "_", "w", "h", "i", "t", "e", ":">>
STR_color_temperature ==
    <<"c", "o", "l", "o", "r", "_", "t", "e", "m", "p", "e", "r", "a", "t", "u", "r",
      "e", ":">>

\* Mutant: an action that merely starts with "on" switches the light on.
do_on_prefix(self, echo, action) ==
    IF startswith(action, STR_on) THEN set_on(self, echo)
    ELSE IF action = STR_off THEN set_off(self, echo)
    ELSE IF startswith(action, STR_brightness)
    THEN LET n == int(SliceFrom(action, 11))
         IN  IF n.ok THEN set_brightness(self, echo, n.value)
             ELSE Raise(self, "ValueError")
    ELSE IF startswith(action, STR_tunable_white)
    THEN LET n == int(SliceFrom(action, 14))
         IN  IF n.ok THEN set_tunable_white(self, echo, n.value)
             ELSE Raise(self, "ValueError")
    ELSE IF startswith(action, STR_color_temperature)
    THEN LET n == int(SliceFrom(action, 18))
         IN  IF n.ok THEN set_color_temperature(self, echo, n.value)
             ELSE Raise(self, "ValueError")
    ELSE Warn(self, "Could not understand action")

\* Mutant: the number is cut one character early, keeping the colon.
do_slice_off_by_one(self, echo, action) ==
    IF action = STR_on THEN set_on(self, echo)
    ELSE IF action = STR_off THEN set_off(self, echo)
    ELSE IF startswith(action, STR_brightness)
    THEN LET n == int(SliceFrom(action, 10))
         IN  IF n.ok THEN set_brightness(self, echo, n.value)
             ELSE Raise(self, "ValueError")
    ELSE IF startswith(action, STR_tunable_white)
    THEN LET n == int(SliceFrom(action, 14))
         IN  IF n.ok THEN set_tunable_white(self, echo, n.value)
             ELSE Raise(self, "ValueError")
    ELSE IF startswith(action, STR_color_temperature)
    THEN LET n == int(SliceFrom(action, 18))
         IN  IF n.ok THEN set_color_temperature(self, echo, n.value)
             ELSE Raise(self, "ValueError")
    ELSE Warn(self, "Could not understand action")

\* Light.do
do(self, echo, action) ==
    IF action = STR_on THEN set_on(self, echo)
    ELSE IF action = STR_off THEN set_off(self, echo)
    ELSE IF startswith(action, STR_brightness)
    THEN LET n == int(SliceFrom(action, 11))
         IN  IF n.ok THEN set_brightness(self, echo, n.value)
             ELSE Raise(self, "ValueError")
    ELSE IF startswith(action, STR_tunable_white)
    THEN LET n == int(SliceFrom(action, 14))
         IN  IF n.ok THEN set_tunable_white(self, echo, n.value)
             ELSE Raise(self, "ValueError")
    ELSE IF startswith(action, STR_color_temperature)
    THEN LET n == int(SliceFrom(action, 18))
         IN  IF n.ok THEN set_color_temperature(self, echo, n.value)
             ELSE Raise(self, "ValueError")
    ELSE Warn(self, "Could not understand action")

(***************************************************************************)
(* Inbound telegrams.                                                      *)
(***************************************************************************)
\* Mutant: the slot records the value without telling the device.
Probe_silent(out, telegram, s) ==
    LET r == RemoteValue_process(out.rv[s], s, telegram)
    IN  [out EXCEPT !.rv[s] = r.slot,
                    !.calls = Append(@, [slot |-> s, method |-> "process",
                                         arg |-> telegram])]

\* One turn of the loop of process_group_write: await remote_value.process.
Probe(out, telegram, s) ==
    LET r == RemoteValue_process(out.rv[s], s, telegram)
    IN  [out EXCEPT !.rv[s] = r.slot,
                    !.cbs = @ + r.cbs,
                    !.calls = Append(@, [slot |-> s, method |-> "process",
                                         arg |-> telegram])]

\* Mutant: the loop ends at the first slot the telegram is meant for.
RECURSIVE ProbeFrom_first_match(_, _, _)
ProbeFrom_first_match(out, telegram, i) ==
    IF i > Len(iter_remote_values) THEN out
    ELSE IF has_group_address(out.rv[iter_remote_values[i]], telegram.group_address)
    THEN Probe(out, telegram, iter_remote_values[i])
    ELSE ProbeFrom_first_match(Probe(out, telegram, iter_remote_values[i]),
                               telegram, i + 1)

\* The loop of process_group_write from its i-th turn on.
RECURSIVE ProbeFrom(_, _, _)
ProbeFrom(out, telegram, i) ==
    IF i > Len(iter_remote_values) THEN out
    ELSE ProbeFrom(Probe(out, telegram, iter_remote_values[i]), telegram, i + 1)

\* Mutant: the device is notified after every telegram.
process_group_write_notify(self, telegram) ==
    [ProbeFrom(Outcome(self), telegram, 1) EXCEPT !.cbs = @ + 1]

\* Light.process_group_write
process_group_write(self, telegram) == ProbeFrom(Outcome(self), telegram, 1)

(***************************************************************************)
(* Construction.  A Light is built with addresses for the slots of a set   *)
(* of features, following one of four address plans: write addresses only, *)
(* state addresses only, both, or write addresses with tunable_white       *)
(* sharing the write address of brightness (overlapping addresses).        *)
(***************************************************************************)
Plans == {"write", "state", "both", "shared"}

\* The installations: no feature, each feature alone, switch with brightness,
\* colour with RGBW, and brightness with tunable white.
FeatureSets ==
    {{}} \cup {{s} : s \in Slots}
    \cup {{"switch", "brightness"}, {"color", "rgbw"}, {"brightness", "tunable_white"}}

WriteAddress(plan, s) ==
    CASE plan = "state" -> None
      [] plan = "shared" /\ s = "tunable_white" -> Some(SlotIndex("brightness"))
      [] OTHER -> Some(SlotIndex(s))

StateAddress(plan, s) ==
    IF plan \in {"state", "both"}
    THEN Some(Len(SlotOrder) + SlotIndex(s))
    ELSE None

\* An address no plan gives to any slot.
UnusedAddress == Some(2 * Len(SlotOrder) + 1)

\* Light.__init__
Light(plan, features) ==
    [s \in Slots |->
        IF s \in features
        THEN RemoteValue(WriteAddress(plan, s), StateAddress(plan, s))
        ELSE RemoteValue(None, None)]

\* Mutant: from_config hands on what the configuration holds, without defaults.
from_config_no_default(config) ==
    [min_kelvin |-> config.min_kelvin, max_kelvin |-> config.max_kelvin]

\* Light.from_config: the min_kelvin and max_kelvin it passes to cls(...).  A
\* key the configuration does not hold is None in config.
from_config(config) ==
    [min_kelvin |-> IF config.min_kelvin = None THEN Some(DEFAULT_MIN_KELVIN)
                    ELSE config.min_kelvin,
     max_kelvin |-> IF config.max_kelvin = None THEN Some(DEFAULT_MAX_KELVIN)
                    ELSE config.max_kelvin]

\* The Light is constructed by a call of via ("__init__" or "from_config")
\* that supplies kelvin.min_kelvin and kelvin.max_kelvin, None if not
\* supplied; __init__ stores the two arguments it receives.
Construct(via, kelvin) ==
    LET args == IF via = "from_config" THEN from_config(kelvin) ELSE kelvin
    IN  /\ constructed = [via |-> via, min_kelvin |-> kelvin.min_kelvin,
                          max_kelvin |-> kelvin.max_kelvin]
        /\ min_kelvin = args.min_kelvin
        /\ max_kelvin = args.max_kelvin

\* Neither min_kelvin nor max_kelvin is supplied.
NoKelvin == [min_kelvin |-> None, max_kelvin |-> None]

(***************************************************************************)
(* Inputs.                                                                 *)
(***************************************************************************)
\* str(n) for a natural number n.
RECURSIVE NatToStr(_)
NatToStr(n) ==
    IF n < 10 THEN <<Digits[n + 1]>>
    ELSE NatToStr(n \div 10) \o <<Digits[(n % 10) + 1]>>

\* The slots a telegram to group_address is meant for.
Matching(self, group_address) ==
    {s \in Slots : has_group_address(self[s], group_address)}

ConfiguredAddresses(self) ==
    {self[s].group_address : s \in {x \in Slots : self[x].group_address # None}}
    \cup {self[s].group_address_state :
              s \in {x \in Slots : self[x].group_address_state # None}}

\* Telegrams: one to every configured address and one to an unused address.
\* The payload is well formed for the slots it is meant for (an overlap is
\* between two slots of the same kind); a telegram for nobody carries a byte.
Telegrams(self) ==
    UNION {{[group_address |-> x[1], payload |-> to_knx(x[2], v)] :
                v \in DomainOf(x[2])} :
              x \in {y \in ConfiguredAddresses(self) \X Slots :
                        y[2] \in Matching(self, y[1])}}
    \cup {[group_address |-> UnusedAddress, payload |-> <<b>>] : b \in Scalars}

\* Suffixes after "<verb>:": the decimal form of every value of the feature,
\* and the empty and a non-numeric suffix.
Suffixes(s) ==
    {NatToStr(v) : v \in DomainOf(s)} \cup {<<>>, <<"a", "b", "c">>}

\* Action strings: the exact verbs, near misses of them, the three prefixes
\* with their suffixes, and a blank-padded and a signed number.
Actions ==
    {STR_on, STR_off, <<"O", "N">>, <<"o", "n", " ">>, <<"b", "o", "g", "u", "s">>,
     <<"c", "o", "l", "o", "r", ":", "1">>}
    \cup {STR_brightness \o x : x \in Suffixes("brightness")}
    \cup {STR_tunable_white \o x : x \in Suffixes("tunable_white")}
    \cup {STR_color_temperature \o x : x \in Suffixes("color_temperature")}
    \cup {STR_brightness \o <<" ", "1", " ">>, STR_brightness \o <<"+", "0">>}

(***************************************************************************)
(* The string summary.  A string is a tuple of characters.                 *)
(***************************************************************************)
\* str(None) for an absent address, the decimal form of a present one.
AddressStr(address) ==
    IF address = None THEN <<"N", "o", "n", "e">> ELSE NatToStr(Get(address))

\* RemoteValue.group_addr_str: the write and the state address of the slot.
group_addr_str(slot) ==
    AddressStr(slot.group_address) \o <<"/">> \o AddressStr(slot.group_address_state)

\* The literal text of the format strings of __str__.
STR_Light_name ==
    <<"<", "L", "i", "g", "h", "t", " ", "n", "a", "m", "e", "=", "\"">>
STR_switch ==
    <<"\"", " ", "s", "w", "i", "t", "c", "h", "=", "\"">>
STR_str_brightness ==
    <<" ", "b", "r", "i", "g", "h", "t", "n", "e", "s", "s", "=", "\"">>
STR_str_color ==
    <<" ", "c", "o", "l", "o", "r", "=", "\"">>
STR_str_rgbw ==
    <<" ", "r", "g", "b", "w", "=", "\"">>
STR_str_tunable_white ==
    <<" ", "t", "u", "n", "a", "b", "l", "e", " ", "w", "h", "i", "t", "e",
    "=", "\"">>
STR_str_color_temperature ==
    <<" ", "c", "o", "l", "o", "r", " ", "t", "e", "m", "p", "e", "r", "a",
    "t", "u", "r", "e", "=", "\"">>
STR_quote ==
    <<"\"">>
STR_end ==
    <<" ", "/", ">">>

\* Mutant: the brightness attribute is printed whether supported or not.
str_always_brightness(self, name) ==
    LET str_brightness ==
            STR_str_brightness \o group_addr_str(self["brightness"]) \o STR_quote
        str_color ==
            IF ~supports_color(self) THEN <<>>
            ELSE STR_str_color \o group_addr_str(self["color"]) \o STR_quote
        str_rgbw ==
            IF ~supports_rgbw(self) THEN <<>>
            ELSE STR_str_rgbw \o group_addr_str(self["rgbw"]) \o STR_quote
        str_tunable_white ==
            IF ~supports_tunable_white(self) THEN <<>>
            ELSE STR_str_tunable_white \o group_addr_str(self["tunable_white"])
                    \o STR_quote
        str_color_temperature ==
            IF ~supports_color_temperature(self) THEN <<>>
            ELSE STR_str_color_temperature
                    \o group_addr_str(self["color_temperature"]) \o STR_quote
    IN  STR_Light_name \o name \o STR_switch \o group_addr_str(self["switch"])
            \o STR_quote \o str_brightness \o str_color \o str_rgbw
            \o str_tunable_white \o str_color_temperature \o STR_end

\* Light.__str__
__str__(self, name) ==
    LET str_brightness ==
            IF ~supports_brightness(self) THEN <<>>
            ELSE STR_str_brightness \o group_addr_str(self["brightness"]) \o STR_quote
        str_color ==
            IF ~supports_color(self) THEN <<>>
            ELSE STR_str_color \o group_addr_str(self["color"]) \o STR_quote
        str_rgbw ==
            IF ~supports_rgbw(self) THEN <<>>
            ELSE STR_str_rgbw \o group_addr_str(self["rgbw"]) \o STR_quote
        str_tunable_white ==
            IF ~supports_tunable_white(self) THEN <<>>
            ELSE STR_str_tunable_white \o group_addr_str(self["tunable_white"])
                    \o STR_quote
        str_color_temperature ==
            IF ~supports_color_temperature(self) THEN <<>>
            ELSE STR_str_color_temperature
                    \o group_addr_str(self["color_temperature"]) \o STR_quote
    IN  STR_Light_name \o name \o STR_switch \o group_addr_str(self["switch"])
            \o STR_quote \o str_brightness \o str_color \o str_rgbw
            \o str_tunable_white \o str_color_temperature \o STR_end

(***************************************************************************)
(* The state machine.  Every operation is awaited to completion before the *)
(* next one is started (one logical task drives the Light).               *)
(***************************************************************************)
\* The record of an operation: its name and argument, whether it repeats the
\* operation before it, the slots before its last turn (its only turn, unless
\* it was suspended), whether another operation took effect between its start
\* and its end, and its outcome.
Record(op, arg, repeat, before, interleaved, out) ==
    [op |-> op, arg |-> arg, repeat |-> repeat, before |-> before,
     interleaved |-> interleaved,
     cbs |-> out.cbs, bus |-> out.bus, warnings |-> out.warnings,
     raised |-> out.raised, calls |-> out.calls]

\* An operation op(arg) runs to completion with outcome out, in one turn.  A
\* process_group_write suspended meanwhile has been overtaken.
Complete(op, arg, out) ==
    /\ remote_values' = out.rv
    /\ last' = Record(op, arg, last.op = op /\ last.arg = arg, remote_values, FALSE,
                      out)
    /\ running' = IF running = None THEN None
                  ELSE Some([Get(running) EXCEPT !.interleaved = TRUE])
    /\ UNCHANGED <<local_echo, min_kelvin, max_kelvin, constructed>>

Init ==
    /\ \E plan \in Plans, features \in FeatureSets :
            remote_values = Light(plan, features)
    /\ local_echo \in BOOLEAN
    /\ running = None
    /\ last = Record("__init__", None, FALSE, remote_values, FALSE,
                     Outcome(remote_values))
    /\ Construct("__init__", NoKelvin)

SetOn == Complete("set_on", None, set_on(remote_values, local_echo))

SetOff == Complete("set_off", None, set_off(remote_values, local_echo))

SetBrightness ==
    \E brightness \in DomainOf("brightness") :
        Complete("set_brightness", brightness,
                 set_brightness(remote_values, local_echo, brightness))

SetColor ==
    \E color \in RGBs, white \in {None} \cup {Some(w) : w \in Scalars} :
        Complete("set_color", [color |-> color, white |-> white],
                 set_color(remote_values, local_echo, color, white))

SetTunableWhite ==
    \E tunable_white \in DomainOf("tunable_white") :
        Complete("set_tunable_white", tunable_white,
                 set_tunable_white(remote_values, local_echo, tunable_white))

SetColorTemperature ==
    \E color_temperature \in DomainOf("color_temperature") :
        Complete("set_color_temperature", color_temperature,
                 set_color_temperature(remote_values, local_echo, color_temperature))

Do ==
    \E action \in Actions :
        Complete("do", action, do(remote_values, local_echo, action))

ProcessGroupWrite ==
    \E telegram \in Telegrams(remote_values) :
        Complete("process_group_write", telegram,
                 process_group_write(remote_values, telegram))

Next ==
    \/ SetOn
    \/ SetOff
    \/ SetBrightness
    \/ SetColor
    \/ SetTunableWhite
    \/ SetColorTemperature
    \/ Do
    \/ ProcessGroupWrite

Spec == Init /\ [][Next]_vars

(***************************************************************************)
(* Concurrently started operations.  process_group_write awaits each slot  *)
(* in turn: a task running it can be suspended after any probe but the     *)
(* last, and Light holds no lock, so other tasks may call the Light while  *)
(* it is suspended.  The other tasks switch the light on, dim it, or       *)
(* deliver a telegram of their own; the Light has a switch and brightness, *)
(* each with a write and a state address.                                  *)
(***************************************************************************)
InitAsync ==
    /\ remote_values = Light("both", {"switch", "brightness"})
    /\ local_echo \in BOOLEAN
    /\ running = None
    /\ last = Record("__init__", None, FALSE, remote_values, FALSE,
                     Outcome(remote_values))
    /\ Construct("__init__", NoKelvin)

\* A task calls process_group_write: the loop runs up to the first await that
\* suspends, after the probe of the first slot.
ProcessGroupWriteStart ==
    /\ running = None
    /\ \E telegram \in Telegrams(remote_values) :
          LET out == Probe(Outcome(remote_values), telegram, iter_remote_values[1])
          IN  /\ remote_values' = out.rv
              /\ running' = Some([telegram |-> telegram, next |-> 2,
                                  interleaved |-> FALSE,
                                  cbs |-> out.cbs, calls |-> out.calls])
    /\ UNCHANGED <<local_echo, last, min_kelvin, max_kelvin, constructed>>

\* The suspended task is resumed: the loop probes the next slot, and returns
\* after the last one.
ProcessGroupWriteResume ==
    /\ running # None
    /\ LET r == Get(running)
           out == Probe([Outcome(remote_values) EXCEPT !.cbs = r.cbs, !.calls = r.calls],
                        r.telegram, iter_remote_values[r.next])
       IN  /\ remote_values' = out.rv
           /\ IF r.next < Len(iter_remote_values)
              THEN /\ running' = Some([r EXCEPT !.next = @ + 1, !.cbs = out.cbs,
                                                !.calls = out.calls])
                   /\ UNCHANGED last
              ELSE /\ running' = None
                   /\ last' = Record("process_group_write", r.telegram,
                                     last.op = "process_group_write"
                                        /\ last.arg = r.telegram,
                                     remote_values, r.interleaved, out)
    /\ UNCHANGED <<local_echo, min_kelvin, max_kelvin, constructed>>

NextAsync ==
    \/ ProcessGroupWriteStart
    \/ ProcessGroupWriteResume
    \/ SetOn
    \/ SetBrightness
    \/ ProcessGroupWrite

SpecAsync == InitAsync /\ [][NextAsync]_vars

(***************************************************************************)
(* The colour temperature range.  A Light with a colour temperature slot   *)
(* is constructed directly or by from_config, with or without min_kelvin   *)
(* and max_kelvin, and then operated like any other.                       *)
(***************************************************************************)
\* What a caller or a configuration supplies for min_kelvin or max_kelvin.
SuppliedKelvin == {None} \cup {Some(k) : k \in Kelvins}

InitConfig ==
    /\ remote_values = Light("both", {"color_temperature"})
    /\ local_echo \in BOOLEAN
    /\ running = None
    /\ last = Record("__init__", None, FALSE, remote_values, FALSE,
                     Outcome(remote_values))
    /\ \E via \in {"__init__", "from_config"},
          min \in SuppliedKelvin, max \in SuppliedKelvin :
            Construct(via, [min_kelvin |-> min, max_kelvin |-> max])

SpecConfig == InitConfig /\ [][Next]_vars

(***************************************************************************)
(* Printing a Light.  __str__ reads the name, the addresses and the flags, *)
(* which no operation changes: it is applied to every Light that can be    *)
(* constructed from the address plans, with any set of features.           *)
(***************************************************************************)
\* Device names.
Names == {<<"L", "1">>, <<"a", " ", "b">>}

InitStr ==
    /\ \E plan \in Plans, features \in SUBSET Slots :
            remote_values = Light(plan, features)
    /\ local_echo = FALSE
    /\ running = None
    /\ last = Record("__init__", None, FALSE, remote_values, FALSE,
                     Outcome(remote_values))
    /\ Construct("__init__", NoKelvin)

\* str(light) of a Light named name: the record of the call carries the
\* string returned.
Str ==
    /\ \E name \in Names :
          last' = ("returned" :> __str__(remote_values, name))
                  @@ Record("__str__", name, last.op = "__str__" /\ last.arg = name,
                            remote_values, FALSE, Outcome(remote_values))
    /\ UNCHANGED <<remote_values, local_echo, running, min_kelvin, max_kelvin,
                   constructed>>

NextStr == Str

SpecStr == InitStr /\ [][NextStr]_vars

(***************************************************************************)
(* Properties.                                                             *)
(***************************************************************************)
\* The five capability flags of a Light.
Supports(self) ==
    [brightness |-> supports_brightness(self),
     color |-> supports_color(self),
     rgbw |-> supports_rgbw(self),
     tunable_white |-> supports_tunable_white(self),
     color_temperature |-> supports_color_temperature(self)]

OptionalFeatures == {"brightness", "color", "rgbw", "tunable_white", "color_temperature"}

\* The slot was constructed with a write address or a state address.
HasAddress(slot) == slot.group_address # None \/ slot.group_address_state # None

\* The cached values of the six slots.
Values(self) == [s \in Slots |-> self[s].value]

\* The operation that completed last was a setter of a feature the Light does
\* not support.
UnsupportedSetter ==
    \/ last.op = "set_brightness" /\ ~supports_brightness(last.before)
    \/ last.op = "set_color" /\ last.arg.white # None /\ ~supports_rgbw(last.before)
    \/ last.op = "set_color" /\ last.arg.white = None /\ ~supports_color(last.before)
    \/ last.op = "set_tunable_white" /\ ~supports_tunable_white(last.before)
    \/ last.op = "set_color_temperature" /\ ~supports_color_temperature(last.before)

\* C1: each of the five flags supports_F is true iff F's slot was constructed
\* with a write or a state address, and no operation ever changes a flag or
\* an address.
C1_SupportsIffAddressed ==
    /\ [](\A f \in OptionalFeatures :
            Supports(remote_values)[f] <=> HasAddress(remote_values[f]))
    /\ [][/\ Supports(remote_values') = Supports(remote_values)
          /\ \A f \in Slots : HasAddress(remote_values'[f]) <=> HasAddress(remote_values[f])
         ]_vars

\* C1 witness: telegrams and setters have acted on a Light that supports
\* brightness through its state address alone and does not support colour.
C1_Witness ==
    /\ last.op = "set_color"
    /\ supports_brightness(remote_values) /\ ~supports_color(remote_values)
    /\ remote_values["brightness"].group_address = None
    /\ remote_values["brightness"].value # None

\* C2: a setter called for an unsupported feature leaves all six cached
\* values unchanged, writes nothing to the bus, runs no update callback, and
\* returns normally after one warning.
C2_UnsupportedSetterIsNoOp ==
    UnsupportedSetter =>
        /\ Values(remote_values) = Values(last.before)
        /\ last.bus = <<>>
        /\ last.cbs = 0
        /\ last.raised = None
        /\ Len(last.warnings) = 1

\* C2 witness: set_color with a white value on a Light with plain colour but
\* no RGBW, whose colour slot holds a value.
C2_Witness ==
    /\ UnsupportedSetter
    /\ last.op = "set_color" /\ last.arg.white # None
    /\ supports_color(remote_values)
    /\ remote_values["color"].value # None

C4_SetColorRouting ==
    last.op = "set_color" =>
        /\ Len(last.calls) <= 1 /\ Len(last.bus) = Len(last.calls)
        /\ IF last.arg.white # None
           THEN IF supports_rgbw(last.before)
                THEN /\ last.calls =
                          <<[slot |-> "rgbw", method |-> "set",
                             arg |-> <<last.arg.color[1], last.arg.color[2],
                                       last.arg.color[3], Get(last.arg.white)>>]>>
                     /\ last.bus[1].group_address = remote_values["rgbw"].group_address
                ELSE last.calls = <<>>
           ELSE IF supports_color(last.before)
                THEN /\ last.calls =
                          <<[slot |-> "color", method |-> "set", arg |-> last.arg.color]>>
                     /\ last.bus[1].group_address = remote_values["color"].group_address
                ELSE last.calls = <<>>

\* C4 witness: set_color without a white value on a Light with RGBW but no
\* plain colour: nothing is written.
C4_Witness ==
    /\ last.op = "set_color" /\ last.arg.white = None
    /\ supports_rgbw(remote_values) /\ ~supports_color(remote_values)
    /\ last.bus = <<>>

\* The slots whose cached value the last operation changed.
Changed == {s \in Slots : remote_values[s].value # last.before[s].value}

\* The last operation was process_group_write of a telegram whose destination
\* is an address of exactly one slot.
OneSlotTelegram ==
    /\ last.op = "process_group_write"
    /\ Cardinality(Matching(last.before, last.arg.group_address)) = 1

\* The slot a one-slot telegram is meant for.
TheSlot == CHOOSE s \in Slots : has_group_address(last.before[s], last.arg.group_address)

\* C5 as stated: a telegram for exactly one slot changes no other slot's
\* value, leaves that slot holding the decoded payload, and runs the update
\* callback exactly once.
C5_OneSlotOneCallback ==
    OneSlotTelegram =>
        /\ Changed \subseteq {TheSlot}
        /\ remote_values[TheSlot].value = Some(from_knx(TheSlot, last.arg.payload))
        /\ last.cbs = 1

\* C5 as amended: a telegram for exactly one slot changes no other slot's
\* value and leaves that slot holding the decoded payload; the update callback
\* runs exactly once if the decoded payload differs from the value cached
\* before, and not at all if it equals it.
C5_OneSlotCallbackOnChange ==
    OneSlotTelegram =>
        /\ Changed \subseteq {TheSlot}
        /\ remote_values[TheSlot].value = Some(from_knx(TheSlot, last.arg.payload))
        /\ last.cbs =
              IF last.before[TheSlot].value # Some(from_knx(TheSlot, last.arg.payload))
              THEN 1 ELSE 0
        /\ last.raised = None

\* C5 witness: a telegram to the state address of color_temperature replaced
\* an older cached value, with one callback.
C5_Witness ==
    /\ OneSlotTelegram
    /\ TheSlot = "color_temperature"
    /\ last.arg.group_address = remote_values["color_temperature"].group_address_state
    /\ last.before["color_temperature"].value # None
    /\ Changed = {"color_temperature"}
    /\ last.cbs = 1

\* C6: a telegram whose destination is no configured address leaves the six
\* cached values and the capability flags unchanged, runs no callback and
\* raises nothing.
C6_NoMatchIsNoOp ==
    (/\ last.op = "process_group_write"
     /\ Matching(last.before, last.arg.group_address) = {})
    => /\ remote_values = last.before
       /\ Supports(remote_values) = Supports(last.before)
       /\ last.cbs = 0
       /\ last.bus = <<>>
       /\ last.raised = None

\* C6 witness: such a telegram on a Light two of whose slots hold a value.
C6_Witness ==
    /\ last.op = "process_group_write"
    /\ Matching(last.before, last.arg.group_address) = {}
    /\ Cardinality({s \in Slots : remote_values[s].value # None}) = 2

\* C7: delivering a telegram a second time changes nothing and runs no
\* callback: in the state a delivery leaves, a further delivery of the same
\* telegram is a no-op, and a delivery that repeats the one before it was one.
C7_SecondDeliveryIsNoOp ==
    last.op = "process_group_write" =>
        /\ LET again == process_group_write(remote_values, last.arg)
           IN  again.rv = remote_values /\ again.cbs = 0 /\ again.raised = None
        /\ last.repeat => (remote_values = last.before /\ last.cbs = 0)

\* C7 witness: the second of two successive deliveries of a telegram that
\* matches a slot.
C7_Witness ==
    /\ last.op = "process_group_write" /\ last.repeat
    /\ Matching(last.before, last.arg.group_address) # {}
    /\ last.cbs = 0

\* C8 as stated: operations on one Light are serialized: once a
\* process_group_write has begun, every step up to its completion is a step
\* of that same call, so no other operation takes effect between two of its
\* slot probes.
C8_Serialized ==
    [][running # None =>
          /\ (running' # None => Get(running').next = Get(running).next + 1)
          /\ (running' = None => last'.op = "process_group_write"
                                    /\ last'.arg = Get(running).telegram)
          /\ (running' # None => last' = last)]_vars

\* The probes of the first n slots with a telegram, in the declared order.
ProbesOf(telegram, n) ==
    [i \in 1..n |-> [slot |-> SlotOrder[i], method |-> "process", arg |-> telegram]]

\* C8 as amended: Light takes no lock, so another operation may take effect
\* between two slot probes of a suspended process_group_write; whatever runs
\* in between, the telegram is presented to the six slots once each in the
\* declared order: a suspended call has probed exactly the slots before its
\* position, a completed call all six.
C8_ProbesInOrder ==
    /\ running # None =>
          /\ Get(running).next \in 2..Len(SlotOrder)
          /\ Get(running).calls = ProbesOf(Get(running).telegram, Get(running).next - 1)
    /\ last.op = "process_group_write" =>
          last.calls = ProbesOf(last.arg, Len(SlotOrder))

\* C8 witness: a process_group_write that matched the brightness slot has
\* completed after another operation took effect while it was suspended.
C8_Witness ==
    /\ last.op = "process_group_write" /\ last.interleaved
    /\ has_group_address(remote_values["brightness"], last.arg.group_address)
    /\ last.calls = ProbesOf(last.arg, Len(SlotOrder))

\* C9 as stated: no operation of Light ends in an error raised to its caller.
C9_NothingRaised == last.raised = None

\* str(n) for an integer n.
IntToStr(n) == IF n < 0 THEN <<"-">> \o NatToStr(0 - n) ELSE NatToStr(n)

\* The outcome of the operation that completed last.
LastOutcome ==
    [rv |-> remote_values, cbs |-> last.cbs, bus |-> last.bus,
     warnings |-> last.warnings, raised |-> last.raised, calls |-> last.calls]

\* The integers the equivalence of do and the setters is checked for.
Numbers == ((0 - MaxVal)..MaxVal) \cup {10 + MaxVal} \cup Kelvins

\* C10: in every reachable state do("brightness:n"), do("tunable_white:n") and
\* do("color_temperature:n") have the outcome of set_brightness(n),
\* set_tunable_white(n) and set_color_temperature(n), for every integer n in
\* its decimal form, and do("on"), do("off") that of set_on(), set_off():
\* the same slots afterwards, bus writes, callbacks, warnings and error;
\* and every do that ran had the outcome of its setter.
C10_DoEqualsSetter ==
    /\ do(remote_values, local_echo, STR_on) = set_on(remote_values, local_echo)
    /\ do(remote_values, local_echo, STR_off) = set_off(remote_values, local_echo)
    /\ \A n \in Numbers :
          /\ do(remote_values, local_echo, STR_brightness \o IntToStr(n))
                = set_brightness(remote_values, local_echo, n)
          /\ do(remote_values, local_echo, STR_tunable_white \o IntToStr(n))
                = set_tunable_white(remote_values, local_echo, n)
          /\ do(remote_values, local_echo, STR_color_temperature \o IntToStr(n))
                = set_color_temperature(remote_values, local_echo, n)
    /\ last.op = "do" =>
          /\ last.arg = STR_on => LastOutcome = set_on(last.before, local_echo)
          /\ last.arg = STR_off => LastOutcome = set_off(last.before, local_echo)
          /\ \A n \in Numbers :
                /\ last.arg = STR_brightness \o IntToStr(n) =>
                      LastOutcome = set_brightness(last.before, local_echo, n)
                /\ last.arg = STR_tunable_white \o IntToStr(n) =>
                      LastOutcome = set_tunable_white(last.before, local_echo, n)
                /\ last.arg = STR_color_temperature \o IntToStr(n) =>
                      LastOutcome = set_color_temperature(last.before, local_echo, n)

\* C10 witness: do("brightness:1") has written brightness 1 to the bus of a
\* Light that supports brightness.
C10_Witness ==
    /\ last.op = "do" /\ last.arg = STR_brightness \o <<"1">>
    /\ supports_brightness(remote_values)
    /\ last.calls = <<[slot |-> "brightness", method |-> "set", arg |-> 1]>>
    /\ Len(last.bus) = 1

\* The action string matches none of the branches of do: it is neither
\* exactly "on" nor exactly "off" and starts with none of the three prefixes.
Unrecognised(action) ==
    /\ action # STR_on
    /\ action # STR_off
    /\ ~startswith(action, STR_brightness)
    /\ ~startswith(action, STR_tunable_white)
    /\ ~startswith(action, STR_color_temperature)

\* C11: do with an action string that is neither exactly "on" nor exactly
\* "off" and starts with none of "brightness:", "tunable_white:",
\* "color_temperature:" writes nothing to the bus, calls no slot, changes no
\* cached value, runs no callback and raises nothing; it logs one warning.
C11_UnknownActionOnlyWarns ==
    (last.op = "do" /\ Unrecognised(last.arg)) =>
        /\ remote_values = last.before
        /\ last.bus = <<>>
        /\ last.calls = <<>>
        /\ last.cbs = 0
        /\ last.raised = None
        /\ last.warnings = <<"Could not understand action">>

\* C11 witness: do("on ") on a Light whose switch slot holds the value off
\* has only warned.
C11_Witness ==
    /\ last.op = "do" /\ last.arg = <<"o", "n", " ">>
    /\ Unrecognised(last.arg)
    /\ remote_values["switch"].value = Some(FALSE)
    /\ Len(last.warnings) = 1

\* C12 as stated: for every optional feature whose slot is uninitialized the
\* reader of that feature returns the absent value: current_brightness,
\* current_tunable_white and current_color_temperature for their slots, the
\* colour part of current_color for color and its white part for rgbw.
C12_UnsupportedReadsAbsent ==
    /\ ~supports_brightness(remote_values) =>
            current_brightness(remote_values) = None
    /\ ~supports_tunable_white(remote_values) =>
            current_tunable_white(remote_values) = None
    /\ ~supports_color_temperature(remote_values) =>
            current_color_temperature(remote_values) = None
    /\ ~supports_color(remote_values) => current_color(remote_values)[1] = None
    /\ ~supports_rgbw(remote_values) => current_color(remote_values)[2] = None

\* C12 as amended: no operation gives an uninitialized slot of an optional
\* feature a cached value; current_brightness, current_tunable_white and
\* current_color_temperature return absent for an unsupported feature;
\* current_color returns an absent white part when RGBW is unsupported and
\* (absent, absent) when neither colour nor RGBW is supported, but on a Light
\* with RGBW and without colour it returns the colour held by the rgbw slot.
C12_UnsupportedStaysAbsent ==
    /\ \A f \in OptionalFeatures :
            ~initialized(remote_values[f]) => remote_values[f].value = None
    /\ ~supports_brightness(remote_values) =>
            current_brightness(remote_values) = None
    /\ ~supports_tunable_white(remote_values) =>
            current_tunable_white(remote_values) = None
    /\ ~supports_color_temperature(remote_values) =>
            current_color_temperature(remote_values) = None
    /\ ~supports_rgbw(remote_values) => current_color(remote_values)[2] = None
    /\ (~supports_color(remote_values) /\ ~supports_rgbw(remote_values)) =>
            current_color(remote_values) = <<None, None>>
    /\ (~supports_color(remote_values) /\ supports_rgbw(remote_values)) =>
            current_color(remote_values)[1] =
                IF remote_values["rgbw"].value = None THEN None
                ELSE Some(SubSeq(Get(remote_values["rgbw"].value), 1, 3))

\* C12 witness: set_color without a white value was refused on a Light with
\* RGBW and without colour whose rgbw slot holds a value: the color slot is
\* empty and current_color reports a colour.
C12_Witness ==
    /\ last.op = "set_color" /\ last.arg.white = None
    /\ ~supports_color(remote_values) /\ supports_rgbw(remote_values)
    /\ remote_values["color"].value = None
    /\ remote_values["rgbw"].value # None
    /\ current_color(remote_values)[1] # None

\* C13: process_group_write presents the telegram to all six slots, supported
\* or not, once each in the order switch, brightness, color, rgbw,
\* tunable_white, color_temperature; every slot the destination matches, also
\* when several match, ends holding the decoded payload and runs the update
\* callback for its own change, so the callbacks number the matching slots
\* whose value changed; the other slots are untouched, nothing is written to
\* the bus and nothing is raised.
C13_AllSlotsProbedInOrder ==
    last.op = "process_group_write" =>
        LET matching == Matching(last.before, last.arg.group_address)
        IN  /\ last.calls = ProbesOf(last.arg, Len(SlotOrder))
            /\ \A s \in matching :
                  remote_values[s].value = Some(from_knx(s, last.arg.payload))
            /\ \A s \in Slots \ matching : remote_values[s] = last.before[s]
            /\ last.cbs =
                  Cardinality({s \in matching :
                      last.before[s].value # Some(from_knx(s, last.arg.payload))})
            /\ last.bus = <<>>
            /\ last.raised = None

\* C13 witness: a telegram to the address brightness and tunable_white share
\* has updated both slots with two callbacks, on a Light without a switch
\* address.
C13_Witness ==
    /\ last.op = "process_group_write"
    /\ Matching(last.before, last.arg.group_address) = {"brightness", "tunable_white"}
    /\ Changed = {"brightness", "tunable_white"}
    /\ last.cbs = 2
    /\ ~initialized(remote_values["switch"])
    /\ Len(last.calls) = Len(SlotOrder)

\* The update callbacks run by a step: those of the turn a process_group_write
\* takes when it starts or is resumed, or those of an operation that runs to
\* completion in the step.
StepCallbacks ==
    IF running = None /\ running' # None THEN Get(running').cbs
    ELSE IF running # None /\ running' = None THEN last'.cbs - Get(running).cbs
    ELSE IF running # None /\ Get(running').next # Get(running).next
    THEN Get(running').cbs - Get(running).cbs
    ELSE last'.cbs

\* The slots whose cached value a step changes.
StepChanged == {s \in Slots : remote_values'[s].value # remote_values[s].value}

\* C14: the update callback runs in the very step that changes a slot's
\* cached value, once for each slot changed, hence within the operation that
\* made the change and before a later or an overtaking operation has any
\* effect; and a step that changes no cached value runs no callback.
C14_CallbackWithChange ==
    [][StepCallbacks = Cardinality(StepChanged)]_vars

\* C14 witness: a process_group_write that was overtaken while suspended has
\* completed having changed the brightness and run one callback.
C14_Witness ==
    /\ running = None
    /\ last.op = "process_group_write" /\ last.interleaved
    /\ has_group_address(remote_values["brightness"], last.arg.group_address)
    /\ last.cbs = 1
    /\ remote_values["brightness"].value = Some(from_knx("brightness", last.arg.payload))

\* The first position at which sub occurs in str, 0 if it does not occur.
IndexOf(str, sub) ==
    LET at == {i \in 1..(Len(str) - Len(sub) + 1) :
                  SubSeq(str, i, i + Len(sub) - 1) = sub}
    IN  IF at = {} THEN 0 ELSE CHOOSE i \in at : \A j \in at : i <= j

\* The optional features in the order of the summary, and their labels.
FeatureOrder ==
    <<"brightness", "color", "rgbw", "tunable_white", "color_temperature">>

LabelOf(f) ==
    CASE f = "brightness" -> STR_str_brightness
      [] f = "color" -> STR_str_color
      [] f = "rgbw" -> STR_str_rgbw
      [] f = "tunable_white" -> STR_str_tunable_white
      [] f = "color_temperature" -> STR_str_color_temperature

\* The attribute of feature f in the summary of self: label, address, quote.
AttributeOf(self, f) == LabelOf(f) \o group_addr_str(self[f]) \o STR_quote

\* C15: the summary starts with the device name, followed by the switch
\* address, whether or not a switch address was configured; it contains the
\* attribute of an optional feature, with that feature's address, iff the
\* feature is supported; the attributes present stand in the order
\* brightness, color, rgbw, tunable white, color temperature; an unsupported
\* feature's label does not occur and the summary has no other text.
C15_SummaryListsSupported ==
    last.op = "__str__" =>
        LET self == last.before
            summary == last.returned
            head == STR_Light_name \o last.arg \o STR_switch
                        \o group_addr_str(self["switch"]) \o STR_quote
            length(f) == IF Supports(self)[f] THEN Len(AttributeOf(self, f)) ELSE 0
        IN  /\ IndexOf(summary, head) = 1
            /\ \A f \in OptionalFeatures :
                  /\ Supports(self)[f] <=> IndexOf(summary, AttributeOf(self, f)) > 0
                  /\ ~Supports(self)[f] => IndexOf(summary, LabelOf(f)) = 0
                  /\ Supports(self)[f] => IndexOf(summary, LabelOf(f)) > Len(head)
            /\ \A i, j \in 1..Len(FeatureOrder) :
                  (i < j /\ Supports(self)[FeatureOrder[i]]
                         /\ Supports(self)[FeatureOrder[j]]) =>
                      IndexOf(summary, LabelOf(FeatureOrder[i]))
                          < IndexOf(summary, LabelOf(FeatureOrder[j]))
            /\ Len(summary) =
                  Len(head) + length("brightness") + length("color") + length("rgbw")
                  + length("tunable_white") + length("color_temperature")
                  + Len(STR_end)

\* C15 witness: the summary of a Light with colour, tunable white and colour
\* temperature, without a switch address, brightness or RGBW.
C15_Witness ==
    /\ last.op = "__str__"
    /\ Supports(remote_values) =
          [brightness |-> FALSE, color |-> TRUE, rgbw |-> FALSE,
           tunable_white |-> TRUE, color_temperature |-> TRUE]
    /\ ~initialized(remote_values["switch"])
    /\ IndexOf(last.returned, STR_str_color_temperature) > 0
    /\ IndexOf(last.returned, STR_str_brightness) = 0

\* C16 as stated: a Light constructed without min_kelvin has min_kelvin = 2700,
\* one constructed without max_kelvin has max_kelvin = 6000, in every state.
C16_DefaultKelvin ==
    /\ constructed.min_kelvin = None => min_kelvin = Some(DEFAULT_MIN_KELVIN)
    /\ constructed.max_kelvin = None => max_kelvin = Some(DEFAULT_MAX_KELVIN)

\* C16 as amended: a Light built by from_config from a configuration without
\* min_kelvin has min_kelvin = 2700, and without max_kelvin max_kelvin = 6000;
\* a Light constructed directly without them has them absent; a supplied
\* value is stored as it is; and no operation changes either of the two.
C16_DefaultKelvinFromConfig ==
    /\ [](/\ min_kelvin =
                IF constructed.min_kelvin # None THEN constructed.min_kelvin
                ELSE IF constructed.via = "from_config"
                THEN Some(DEFAULT_MIN_KELVIN) ELSE None
          /\ max_kelvin =
                IF constructed.max_kelvin # None THEN constructed.max_kelvin
                ELSE IF constructed.via = "from_config"
                THEN Some(DEFAULT_MAX_KELVIN) ELSE None)
    /\ [][min_kelvin' = min_kelvin /\ max_kelvin' = max_kelvin]_vars

\* C16 witness: a Light built by from_config from a configuration with
\* neither key has the two defaults after set_color_temperature has written
\* to the bus and the slot holds a value.
C16_Witness ==
    /\ constructed = [via |-> "from_config", min_kelvin |-> None, max_kelvin |-> None]
    /\ min_kelvin = Some(DEFAULT_MIN_KELVIN) /\ max_kelvin = Some(DEFAULT_MAX_KELVIN)
    /\ last.op = "set_color_temperature"
    /\ Len(last.bus) = 1
    /\ remote_values["color_temperature"].value # None

\* The slot a setter owns, and the slot method it calls.
OwnSlot(op) ==
    CASE op \in {"set_on", "set_off"} -> "switch"
      [] op = "set_brightness" -> "brightness"
      [] op = "set_tunable_white" -> "tunable_white"
      [] op = "set_color_temperature" -> "color_temperature"

\* The value a completed setter was called with (on / off for the switch).
CallersValue ==
    CASE last.op = "set_on" -> TRUE
      [] last.op = "set_off" -> FALSE
      [] OTHER -> last.arg

\* The last operation was set_on, set_off, or the setter of a supported
\* feature among brightness, tunable white and colour temperature.
SupportedSetter ==
    \/ last.op \in {"set_on", "set_off"}
    \/ last.op = "set_brightness" /\ supports_brightness(last.before)
    \/ last.op = "set_tunable_white" /\ supports_tunable_white(last.before)
    \/ last.op = "set_color_temperature" /\ supports_color_temperature(last.before)

\* C17: set_on, set_off and the setter of a supported feature make exactly
\* one slot call, to the slot that owns the feature and with the caller's
\* value, which writes that value once to the slot's write address; no other
\* slot is called and the other five slots are as before; nothing is warned
\* or raised.
C17_SetterWritesOwnSlotOnly ==
    SupportedSetter =>
        LET own == OwnSlot(last.op)
        IN  /\ last.calls =
                  <<[slot |-> own,
                     method |-> CASE last.op = "set_on" -> "on"
                                  [] last.op = "set_off" -> "off"
                                  [] OTHER -> "set",
                     arg |-> CallersValue]>>
            /\ last.bus = <<[group_address |-> last.before[own].group_address,
                             payload |-> to_knx(own, CallersValue)]>>
            /\ \A s \in Slots \ {own} : remote_values[s] = last.before[s]
            /\ last.warnings = <<>>
            /\ last.raised = None

\* C17 witness: set_tunable_white on a Light whose tunable_white slot shares
\* its write address with brightness has written once, and the brightness
\* slot keeps the different value it held.
C17_Witness ==
    /\ last.op = "set_tunable_white" /\ supports_tunable_white(last.before)
    /\ remote_values["brightness"].group_address
          = remote_values["tunable_white"].group_address
    /\ remote_values["brightness"].value # None
    /\ remote_values["brightness"].value # Some(last.arg)
    /\ Len(last.bus) = 1

\* C18: whenever RGBW is supported current_color reports the rgbw slot,
\* whatever the color slot holds: (first three components, fourth component)
\* of the rgbw value, or (absent, absent) while the rgbw slot has no value;
\* only when RGBW is unsupported it returns (value of the color slot, absent).
C18_CurrentColorPrefersRgbw ==
    LET rgbw == remote_values["rgbw"].value
        color == remote_values["color"].value
        returned == current_color(remote_values)
    IN  /\ (supports_rgbw(remote_values) /\ rgbw # None) =>
              /\ returned[1] = Some(<<Get(rgbw)[1], Get(rgbw)[2], Get(rgbw)[3]>>)
              /\ returned[2] = Some(Get(rgbw)[4])
        /\ (supports_rgbw(remote_values) /\ rgbw = None) =>
              returned = <<None, None>>
        /\ ~supports_rgbw(remote_values) => returned = <<color, None>>

\* C18 witness: on a Light with colour and RGBW a telegram has given the
\* color slot a value while the rgbw slot has none: current_color is
\* (absent, absent).
C18_Witness ==
    /\ last.op = "process_group_write"
    /\ supports_color(remote_values) /\ supports_rgbw(remote_values)
    /\ Changed = {"color"}
    /\ remote_values["color"].value # None
    /\ remote_values["rgbw"].value = None
    /\ current_color(remote_values) = <<None, None>>

\* The last operation was addressed to one of the five optional features: a
\* setter of one of them, a do action with one of the three prefixes, or a
\* telegram whose destination is not an address of the switch slot.
OtherFeatureOperation ==
    \/ last.op \in {"set_brightness", "set_color", "set_tunable_white",
                    "set_color_temperature"}
    \/ last.op = "do" /\ (\/ startswith(last.arg, STR_brightness)
                          \/ startswith(last.arg, STR_tunable_white)
                          \/ startswith(last.arg, STR_color_temperature))
    \/ last.op = "process_group_write"
          /\ "switch" \notin Matching(last.before, last.arg.group_address)

\* The last operation recorded the value on in the switch slot: a telegram to
\* an address of the switch slot carrying on, or set_on / do("on") on a slot
\* that records what it writes.
RecordedOn ==
    \/ last.op = "process_group_write"
          /\ "switch" \in Matching(last.before, last.arg.group_address)
          /\ from_knx("switch", last.arg.payload)
    \/ (last.op = "set_on" \/ (last.op = "do" /\ last.arg = STR_on)) /\ local_echo

\* C19: state is true exactly when the switch slot holds the value on: it is
\* false after construction, false while the switch value is absent or off,
\* becomes true only in an operation that records on in the switch slot,
\* and is the same before and after every telegram and setter of the other
\* five features.
C19_StateIsSwitchValue ==
    /\ last.op = "__init__" => ~state(remote_values)
    /\ remote_values["switch"].value \in {None, Some(FALSE)} => ~state(remote_values)
    /\ remote_values["switch"].value = Some(TRUE) => state(remote_values)
    /\ (state(remote_values) /\ ~state(last.before)) => RecordedOn
    /\ OtherFeatureOperation => (state(remote_values) <=> state(last.before))

\* C19 witness: a brightness telegram has changed the brightness of a Light
\* that is on, and state is still true.
C19_Witness ==
    /\ last.op = "process_group_write" /\ OtherFeatureOperation
    /\ Changed = {"brightness"}
    /\ remote_values["brightness"].value = Some(0)
    /\ state(last.before) /\ state(remote_values)

====
